---------------------------- MODULE Spec2Model ----------------------------
(***************************************************************************)
(* Model of the birthday notifier (src/main.rs).                           *)
(*                                                                         *)
(* A run is sequential: read_config, Reader::from_path, match_dates, the   *)
(* today block (format, println!, optional slack_send), the upcoming block *)
(* (the same), exit.  Every expect()/unwrap() is a panic that ends the     *)
(* run.  Strings are sequences of one-character strings, so formatting and *)
(* comparison are computed character by character.  An Option<String> is   *)
(* the empty set (None) or a singleton (Some).  An instant is its number   *)
(* of days since 1970-01-01 UTC: month() and day() of an instant do not    *)
(* depend on the time of day, and Duration::days keeps the time of day.    *)
(***************************************************************************)
EXTENDS Integers, Sequences, FiniteSets, TLC

VARIABLES
    pc,                  \* position of main
    panic,               \* message of the panic that ended the run, or <<>>
    cfg,                 \* Config returned by read_config
    utc_now,             \* Utc::now() read by match_dates
    warning_days,        \* argument warning_days of match_dates
    input,               \* the rows the csv iterator yields
    current_date,        \* locals of match_dates
    warning_date,
    current_birthdays,   \* the pair match_dates returns
    upcoming_birthdays,
    birthday_message,    \* prefix handed to slack_format
    message,             \* result of slack_format
    log                  \* console lines and HTTP POSTs, in order of occurrence

vars == <<pc, panic, cfg, utc_now, warning_days, input, current_date, warning_date,
          current_birthdays, upcoming_birthdays, birthday_message, message, log>>

-----------------------------------------------------------------------------
(* Bounds of the model *)

\* longest csv file, in data rows
MaxRows == 3

\* largest u8, the type of number_of_days_warning
U8Max == 255

-----------------------------------------------------------------------------
(* Strings *)

Digits == <<"0", "1", "2", "3", "4", "5", "6", "7", "8", "9">>

\* Display of an unsigned integer: its decimal digits, no padding
RECURSIVE to_string(_)
to_string(n) ==
    IF n < 10 THEN <<Digits[n + 1]>>
    ELSE to_string(n \div 10) \o <<Digits[(n % 10) + 1]>>

\* a bug: the width is dropped from the format spec
pad_none(s) == s

\* the format spec {:0>2}: fill "0", align right, minimum width 2
pad_0_right_2(s) ==
    IF Len(s) >= 2 THEN s
    ELSE [i \in 1..(2 - Len(s)) |-> "0"] \o s

\* slice::join
RECURSIVE join(_, _)
join(strs, sep) ==
    IF strs = <<>> THEN <<>>
    ELSE IF Len(strs) = 1 THEN strs[1]
    ELSE strs[1] \o sep \o join(Tail(strs), sep)

-----------------------------------------------------------------------------
(* Calendar: Datelike::month and Datelike::day of a UTC instant *)

\* proleptic Gregorian date of a day number (days since 1970-01-01)
civil(days) ==
    LET z   == days + 719468
        era == z \div 146097
        doe == z - era * 146097
        yoe == (doe - doe \div 1460 + doe \div 36524 - doe \div 146096) \div 365
        doy == doe - (365 * yoe + yoe \div 4 - yoe \div 100)
        mp  == (5 * doy + 2) \div 153
        d   == doy - (153 * mp + 2) \div 5 + 1
        m   == IF mp < 10 THEN mp + 3 ELSE mp - 9
    IN  [year |-> yoe + era * 400 + (IF m <= 2 THEN 1 ELSE 0), month |-> m, day |-> d]

month(epoch_time) == civil(epoch_time).month

day(epoch_time) == civil(epoch_time).day

\* DateTime + Duration::days(n)
plus_days(epoch_time, n) == epoch_time + n

-----------------------------------------------------------------------------
(* get_date_str, match_dates, slack_format *)

get_date_str(epoch_time, csv) ==
    LET m == month(epoch_time)
        d == day(epoch_time)
    IN  IF csv.date_format = "MonthDay"
        THEN pad_0_right_2(to_string(m)) \o <<csv.date_separator>> \o pad_0_right_2(to_string(d))
        ELSE pad_0_right_2(to_string(d)) \o <<csv.date_separator>> \o pad_0_right_2(to_string(m))

\* a bug: matches are inserted at the front of the vectors
push_record_reversed(record, cur_date, warn_date, acc) ==
    IF record.date = cur_date
    THEN [acc EXCEPT !.current = <<record>> \o @]
    ELSE IF record.date = warn_date
         THEN [acc EXCEPT !.upcoming = <<record>> \o @]
         ELSE acc

\* a bug: two independent tests where the code has if / else if
push_record_both(record, cur_date, warn_date, acc) ==
    LET a == IF record.date = cur_date
             THEN [acc EXCEPT !.current = Append(@, record)] ELSE acc
    IN  IF record.date = warn_date
        THEN [a EXCEPT !.upcoming = Append(@, record)] ELSE a

\* body of the for loop of match_dates, for a row that deserialized:
\* acc is the pair (current_birthdays, upcoming_birthdays)
push_record(record, cur_date, warn_date, acc) ==
    IF record.date = cur_date
    THEN [acc EXCEPT !.current = Append(@, record)]
    ELSE IF record.date = warn_date
         THEN [acc EXCEPT !.upcoming = Append(@, record)]
         ELSE acc

\* a bug: a row that failed to deserialize is skipped
RECURSIVE for_result_skip(_, _, _, _)
for_result_skip(iter, cur_date, warn_date, acc) ==
    IF iter = <<>> THEN acc
    ELSE LET result == Head(iter)
         IN  IF ~result.ok
             THEN for_result_skip(Tail(iter), cur_date, warn_date, acc)
             ELSE for_result_skip(Tail(iter), cur_date, warn_date,
                                  push_record([date |-> result.date, tag |-> result.tag],
                                              cur_date, warn_date, acc))

\* the for loop of match_dates: result.expect(..) panics on the first row that
\* failed to deserialize, and the vectors built so far are dropped
RECURSIVE for_result(_, _, _, _)
for_result(iter, cur_date, warn_date, acc) ==
    IF iter = <<>> THEN acc
    ELSE LET result == Head(iter)
         IN  IF ~result.ok
             THEN [panicked |-> TRUE, current |-> <<>>, upcoming |-> <<>>]
             ELSE for_result(Tail(iter), cur_date, warn_date,
                             push_record([date |-> result.date, tag |-> result.tag],
                                         cur_date, warn_date, acc))

match_dates(iter, days, csv, now) ==
    for_result(iter,
               get_date_str(now, csv),
               get_date_str(plus_days(now, days), csv),
               [panicked |-> FALSE, current |-> <<>>, upcoming |-> <<>>])

\* a bug: the tags are joined without the space
slack_format_no_space(tags, prefix) ==
    prefix \o <<"<", "@">>
           \o join([i \in 1..Len(tags) |-> tags[i].tag], <<">", ",", "<", "@">>)
           \o <<">">>

slack_format(tags, prefix) ==
    prefix \o <<"<", "@">>
           \o join([i \in 1..Len(tags) |-> tags[i].tag], <<">", ",", " ", "<", "@">>)
           \o <<">">>

\* a bug: every count above 1 gets the wording for two
today_message_two_or_more(n) ==
    IF n = 1 THEN <<"H","a","p","p","y"," ","b","i","r","t","h","d","a","y">>
    ELSE <<"H","a","p","p","y"," ","b","i","r","t","h","d","a","y",
           " ","t","o"," ","y","o","u"," ","b","o","t","h","!">>

\* the prefix main picks for the today group
today_message(n) ==
    IF n = 1 THEN <<"H","a","p","p","y"," ","b","i","r","t","h","d","a","y">>
    ELSE IF n = 2
         THEN <<"H","a","p","p","y"," ","b","i","r","t","h","d","a","y",
                " ","t","o"," ","y","o","u"," ","b","o","t","h","!">>
         ELSE <<"H","a","p","p","y"," ","b","i","r","t","h","d","a","y",
                " ","t","o"," ","y","o","u"," ","a","l","l","!">>

\* the prefix main builds for the upcoming group
upcoming_message(n) ==
    <<"B","i","r","t","h","d","a","y","s"," ">> \o to_string(n)
        \o <<" ","d","a","y","s"," ","f","r","o","m"," ","n","o","w",":"," ">>

\* a bug: the emptiness test is lost
is_empty_never(v) == FALSE

is_empty(v) == Len(v) = 0

\* a bug: the enabled flag is not consulted
sends_ignoring_enabled(target) ==
    target.webhook_url # {} /\ target.channel_id # {}

\* if enabled { if let (Some(url), Some(channel_id)) = (webhook_url, channel_id) {..} }
sends(target) ==
    target.enabled /\ target.webhook_url # {} /\ target.channel_id # {}

\* blocking send(): Err on a failure of the transport, Ok(response) whatever the
\* status of the response
SendResults == {"Ok(2xx)", "Ok(non-2xx)", "Err"}

\* .unwrap() of the result of send()
unwrap_panics(result) == result = "Err"

-----------------------------------------------------------------------------
(* The environment of a run *)

Targets ==
    [enabled : BOOLEAN,
     channel_id : {{}, {<<"C", "1">>}},
     webhook_url : {{}, {<<"u">>}}]

DateFormats == {"MonthDay", "DayMonth"}

Configs ==
    [warning : [enabled : BOOLEAN,
                channel_id : {{}, {<<"C", "2">>}},
                webhook_url : {{}, {<<"w">>}},
                number_of_days_warning : {0, 1}],
     csv : [date_separator : {"-"}, date_format : DateFormats],
     slack : Targets]

NoConfig ==
    [warning |-> [enabled |-> FALSE, channel_id |-> {}, webhook_url |-> {},
                  number_of_days_warning |-> 0],
     csv |-> [date_separator |-> "-", date_format |-> "MonthDay"],
     slack |-> [enabled |-> FALSE, channel_id |-> {}, webhook_url |-> {}]]

\* 2023-12-31, the day before a month and a year roll over, and 2024-02-28
Nows == {19722, 19781}

OtherFormat(csv) ==
    [csv EXCEPT !.date_format = IF @ = "MonthDay" THEN "DayMonth" ELSE "MonthDay"]

BadRow == [ok |-> FALSE, date |-> <<>>, tag |-> <<>>]

\* rows of a file: birthdays today, a birthday on the warning day, a birthday
\* written in the other date format, and a row that does not deserialize
RowValues(csv, now, days) ==
    { [ok |-> TRUE, date |-> get_date_str(now, csv), tag |-> <<"a">>],
      [ok |-> TRUE, date |-> get_date_str(now, csv), tag |-> <<"b", "o">>],
      [ok |-> TRUE, date |-> get_date_str(plus_days(now, days), csv), tag |-> <<"c">>],
      [ok |-> TRUE, date |-> get_date_str(now, OtherFormat(csv)), tag |-> <<"d">>],
      BadRow }

Files(csv, now, days) ==
    UNION { [1..n -> RowValues(csv, now, days)] : n \in 0..MaxRows }

-----------------------------------------------------------------------------
(* main *)

Init ==
    /\ pc = "start"
    /\ panic = ""
    /\ cfg = NoConfig
    /\ utc_now = 0
    /\ warning_days = 0
    /\ input = <<>>
    /\ current_date = <<>>
    /\ warning_date = <<>>
    /\ current_birthdays = <<>>
    /\ upcoming_birthdays = <<>>
    /\ birthday_message = <<>>
    /\ message = <<>>
    /\ log = <<>>

Panic(msg) ==
    /\ pc' = "panicked"
    /\ panic' = msg

Stdout(group, text) ==
    [kind |-> "stdout", group |-> group, text |-> text,
     url |-> <<>>, channel |-> <<>>, result |-> "printed"]

Post(group, text, target, result) ==
    [kind |-> "post", group |-> group, text |-> text,
     url |-> CHOOSE u \in target.webhook_url : TRUE,
     channel |-> CHOOSE c \in target.channel_id : TRUE,
     result |-> result]

\* let cfg = read_config();
read_config ==
    /\ pc = "start"
    /\ \/ /\ \E msg \in {"Failed to read config.toml", "Unable to deserialize config.toml"} :
                Panic(msg)
          /\ UNCHANGED cfg
       \/ /\ \E c \in Configs : cfg' = c
          /\ pc' = "config"
          /\ UNCHANGED panic
    /\ UNCHANGED <<utc_now, warning_days, input, current_date, warning_date,
                   current_birthdays, upcoming_birthdays, birthday_message, message, log>>

\* let mut reader = Reader::from_path(&cfg.csv.path).expect("Unable to read file");
from_path ==
    /\ pc = "config"
    /\ \/ Panic("Unable to read file")
       \/ pc' = "reader" /\ UNCHANGED panic
    /\ UNCHANGED <<cfg, utc_now, warning_days, input, current_date, warning_date,
                   current_birthdays, upcoming_birthdays, birthday_message, message, log>>

\* the call of match_dates with arguments iter, days, csv at instant now
call_match_dates(iter, days, csv, now) ==
    LET r == match_dates(iter, days, csv, now)
    IN  /\ utc_now' = now
        /\ warning_days' = days
        /\ input' = iter
        /\ current_date' = get_date_str(now, csv)
        /\ warning_date' = get_date_str(plus_days(now, days), csv)
        /\ IF r.panicked
           THEN /\ Panic("Deserialized CSV record")
                /\ UNCHANGED <<current_birthdays, upcoming_birthdays>>
           ELSE /\ current_birthdays' = r.current
                /\ upcoming_birthdays' = r.upcoming
                /\ pc' = "today"
                /\ UNCHANGED panic

\* let (current_birthdays, upcoming_birthdays) =
\*     match_dates(iter, cfg.warning.number_of_days_warning, &cfg.csv);
MatchDates ==
    /\ pc = "reader"
    /\ \E now \in Nows :
         \E iter \in Files(cfg.csv, now, cfg.warning.number_of_days_warning) :
            call_match_dates(iter, cfg.warning.number_of_days_warning, cfg.csv, now)
    /\ UNCHANGED <<cfg, birthday_message, message, log>>

\* if !current_birthdays.is_empty() { .. println!(..);
TodayGroup ==
    /\ pc = "today"
    /\ IF is_empty(current_birthdays)
       THEN /\ pc' = "upcoming"
            /\ UNCHANGED <<birthday_message, message, log>>
       ELSE /\ birthday_message' = today_message(Len(current_birthdays))
            /\ message' = slack_format(current_birthdays, birthday_message')
            /\ log' = Append(log, Stdout("today", message'))
            /\ pc' = "today_send"
    /\ UNCHANGED <<panic, cfg, utc_now, warning_days, input, current_date, warning_date,
                   current_birthdays, upcoming_birthdays>>

\* slack_send(&message, url, channel_id): one POST, then unwrap
slack_send(group, target, next) ==
    \E result \in SendResults :
        /\ log' = Append(log, Post(group, message, target, result))
        /\ IF unwrap_panics(result)
           THEN Panic("called Result::unwrap() on an Err value")
           ELSE pc' = next /\ UNCHANGED panic

\* if cfg.slack.enabled { if let (Some(url), Some(channel_id)) = .. { slack_send(..) } } }
TodaySend ==
    /\ pc = "today_send"
    /\ IF sends(cfg.slack)
       THEN slack_send("today", cfg.slack, "upcoming")
       ELSE pc' = "upcoming" /\ UNCHANGED <<panic, log>>
    /\ UNCHANGED <<cfg, utc_now, warning_days, input, current_date, warning_date,
                   current_birthdays, upcoming_birthdays, birthday_message, message>>

\* if !upcoming_birthdays.is_empty() { .. println!(..);
UpcomingGroup ==
    /\ pc = "upcoming"
    /\ IF is_empty(upcoming_birthdays)
       THEN /\ pc' = "done"
            /\ UNCHANGED <<birthday_message, message, log>>
       ELSE /\ birthday_message' = upcoming_message(cfg.warning.number_of_days_warning)
            /\ message' = slack_format(upcoming_birthdays, birthday_message')
            /\ log' = Append(log, Stdout("upcoming", message'))
            /\ pc' = "upcoming_send"
    /\ UNCHANGED <<panic, cfg, utc_now, warning_days, input, current_date, warning_date,
                   current_birthdays, upcoming_birthdays>>

\* if cfg.warning.enabled { if let (Some(url), Some(channel_id)) = .. { slack_send(..) } } }
UpcomingSend ==
    /\ pc = "upcoming_send"
    /\ IF sends(cfg.warning)
       THEN slack_send("upcoming", cfg.warning, "done")
       ELSE pc' = "done" /\ UNCHANGED <<panic, log>>
    /\ UNCHANGED <<cfg, utc_now, warning_days, input, current_date, warning_date,
                   current_birthdays, upcoming_birthdays, birthday_message, message>>

Next ==
    \/ read_config
    \/ from_path
    \/ MatchDates
    \/ TodayGroup
    \/ TodaySend
    \/ UpcomingGroup
    \/ UpcomingSend

Spec == Init /\ [][Next]_vars

-----------------------------------------------------------------------------
(* match_dates and get_date_str on every day of 2023 and 2024 (a leap year) and
   every warning offset a u8 holds *)

\* 2023-01-01 .. 2024-12-31
AllDays == 19358..20088

DateCsvs == [date_separator : {"-", "/"}, date_format : DateFormats]

\* a file with a birthday today, one on the warning day and one written in
\* the other date format
DateFile(csv, now, days) ==
    << [ok |-> TRUE, date |-> get_date_str(plus_days(now, days), csv), tag |-> <<"c">>],
       [ok |-> TRUE, date |-> get_date_str(now, csv), tag |-> <<"a">>],
       [ok |-> TRUE, date |-> get_date_str(now, OtherFormat(csv)), tag |-> <<"d">>] >>

InitDate ==
    /\ pc = "reader"
    /\ panic = ""
    /\ cfg \in {[NoConfig EXCEPT !.csv = c] : c \in DateCsvs}
    /\ utc_now \in AllDays
    /\ warning_days = 0
    /\ input = <<>>
    /\ current_date = <<>>
    /\ warning_date = <<>>
    /\ current_birthdays = <<>>
    /\ upcoming_birthdays = <<>>
    /\ birthday_message = <<>>
    /\ message = <<>>
    /\ log = <<>>

MatchDatesOnDate ==
    /\ pc = "reader"
    /\ \E days \in 0..U8Max :
         call_match_dates(DateFile(cfg.csv, utc_now, days), days, cfg.csv, utc_now)
    /\ UNCHANGED <<cfg, birthday_message, message, log>>

NextDate == MatchDatesOnDate

SpecDate == InitDate /\ [][NextDate]_vars

-----------------------------------------------------------------------------
(* Properties *)

SendPanic == "called Result::unwrap() on an Err value"

\* match_dates has returned its pair to main
MatchReturned ==
    \/ pc \in {"today", "today_send", "upcoming", "upcoming_send", "done"}
    \/ pc = "panicked" /\ panic = SendPanic

Terminated == pc \in {"done", "panicked"}

InputRecords == [i \in 1..Len(input) |-> [date |-> input[i].date, tag |-> input[i].tag]]

InSeq(x, seq) == \E i \in 1..Len(seq) : seq[i] = x

Events(kind, group) == {i \in 1..Len(log) : log[i].kind = kind /\ log[i].group = group}

Printed(group) == Events("stdout", group) # {}

Posted(group) == Events("post", group) # {}

Target(group) == IF group = "today" THEN cfg.slack ELSE cfg.warning

Matches(group) == IF group = "today" THEN current_birthdays ELSE upcoming_birthdays

Groups == {"today", "upcoming"}

HappyBirthday == <<"H","a","p","p","y"," ","b","i","r","t","h","d","a","y">>

ToYouBoth == <<" ","t","o"," ","y","o","u"," ","b","o","t","h","!">>

ToYouAll == <<" ","t","o"," ","y","o","u"," ","a","l","l","!">>

\* C1: match_dates returns as todayMatches the input records whose date is the
\* today key and as upcomingMatches those whose date is not the today key and is
\* the warning key, each in input order; the other records are in neither.
C1_Partition ==
    MatchReturned =>
        /\ current_birthdays = SelectSeq(InputRecords, LAMBDA r : r.date = current_date)
        /\ upcoming_birthdays =
               SelectSeq(InputRecords,
                         LAMBDA r : r.date # current_date /\ r.date = warning_date)

C1_Witness ==
    /\ MatchReturned
    /\ Len(input) = 3
    /\ Len(current_birthdays) = 2
    /\ current_birthdays[1].tag = <<"b", "o">>
    /\ current_birthdays[2].tag = <<"a">>
    /\ Len(upcoming_birthdays) = 1
    /\ input[2].date = warning_date

\* C2: a record whose date is both the today key and the warning key is in
\* todayMatches and not in upcomingMatches; the two keys are equal only when the
\* offset is 0; for every offset 0..255 no record is in both outputs.
C2_Exclusive ==
    MatchReturned =>
        /\ current_date = warning_date => warning_days = 0
        /\ \A i \in 1..Len(InputRecords) :
              LET r == InputRecords[i]
              IN  /\ (r.date = current_date /\ r.date = warning_date)
                        => InSeq(r, current_birthdays) /\ ~InSeq(r, upcoming_birthdays)
                  /\ ~(InSeq(r, current_birthdays) /\ InSeq(r, upcoming_birthdays))

C2_Witness ==
    /\ MatchReturned
    /\ warning_days = 0
    /\ current_date = warning_date
    /\ Len(current_birthdays) = 2
    /\ upcoming_birthdays = <<>>

\* the two digits of a number below 100
TwoDigits(n) == <<Digits[(n \div 10) + 1], Digits[(n % 10) + 1]>>

DateKey(t) ==
    IF cfg.csv.date_format = "MonthDay"
    THEN TwoDigits(month(t)) \o <<cfg.csv.date_separator>> \o TwoDigits(day(t))
    ELSE TwoDigits(day(t)) \o <<cfg.csv.date_separator>> \o TwoDigits(month(t))

\* C3: get_date_str gives month and day, each zero-padded to exactly 2
\* characters, joined by the separator, month first for MonthDay and day first
\* for DayMonth (3, 7, "-" give "03-07" and "07-03"); nothing else, so no year.
C3_DateKey ==
    MatchReturned =>
        /\ month(utc_now) \in 1..12 /\ day(utc_now) \in 1..31
        /\ current_date = DateKey(utc_now)
        /\ warning_date = DateKey(utc_now + warning_days)
        /\ Len(current_date) = 5 /\ Len(warning_date) = 5
        /\ (month(utc_now) = 3 /\ day(utc_now) = 7 /\ cfg.csv.date_separator = "-")
              => current_date = IF cfg.csv.date_format = "MonthDay"
                                THEN <<"0", "3", "-", "0", "7">>
                                ELSE <<"0", "7", "-", "0", "3">>

C3_Witness ==
    /\ MatchReturned
    /\ month(utc_now) = 3 /\ day(utc_now) = 7
    /\ cfg.csv.date_format = "DayMonth"
    /\ current_date = <<"0", "7", "-", "0", "3">>
    /\ month(utc_now + warning_days) = 11 /\ day(utc_now + warning_days) = 17
    /\ warning_date = <<"1", "7", "-", "1", "1">>

\* each tag wrapped as <@tag>, the wrapped tokens separated by ", "
RECURSIVE Mentions(_)
Mentions(records) ==
    IF records = <<>> THEN <<>>
    ELSE <<"<", "@">> \o Head(records).tag \o <<">">>
         \o (IF Len(records) = 1 THEN <<>> ELSE <<",", " ">> \o Mentions(Tail(records)))

\* C4: for a non-empty sequence of records slack_format returns the prefix
\* followed by each tag wrapped as <@tag>, the tokens joined by ", " in input
\* order, with no separator for one record; that string is the line printed.
C4_Format ==
    /\ pc = "today_send" =>
          /\ message = birthday_message \o Mentions(current_birthdays)
          /\ Len(current_birthdays) = 1 =>
                message = birthday_message \o <<"<", "@">>
                              \o current_birthdays[1].tag \o <<">">>
          /\ log[Len(log)] = Stdout("today", message)
    /\ pc = "upcoming_send" =>
          /\ message = birthday_message \o Mentions(upcoming_birthdays)
          /\ log[Len(log)] = Stdout("upcoming", message)

C4_Witness ==
    /\ pc = "today_send"
    /\ Len(current_birthdays) = 2
    /\ message = HappyBirthday \o ToYouBoth
                     \o <<"<", "@", "a", ">", ",", " ", "<", "@", "b", "o", ">">>

\* C5: the prefix of the today message is "Happy birthday" for exactly 1 match,
\* "Happy birthday to you both!" for exactly 2 and "Happy birthday to you all!"
\* for 3 or more.
C5_Prefix ==
    pc = "today_send" =>
        /\ Len(current_birthdays) = 1 => birthday_message = HappyBirthday
        /\ Len(current_birthdays) = 2 => birthday_message = HappyBirthday \o ToYouBoth
        /\ Len(current_birthdays) >= 3 => birthday_message = HappyBirthday \o ToYouAll
        /\ SubSeq(log[Len(log)].text, 1, Len(birthday_message)) = birthday_message

C5_Witness ==
    /\ pc = "today_send"
    /\ Len(current_birthdays) >= 3
    /\ birthday_message = HappyBirthday \o ToYouAll

\* a POST happens only for a group that is enabled and has both its
\* webhook_url and its channel_id
PostsOnlyWhenConfigured ==
    \A g \in Groups :
        /\ Posted(g) => Target(g).enabled /\ Target(g).webhook_url # {}
                                           /\ Target(g).channel_id # {}
        /\ (Target(g).enabled
              /\ (Target(g).webhook_url = {} \/ Target(g).channel_id = {})) => ~Posted(g)

\* C6 as stated: at the end of a run every group with a match has been printed,
\* whatever the notification settings, and POSTs happen only when configured.
C6_Original ==
    /\ (Terminated /\ MatchReturned) =>
          \A g \in Groups : Matches(g) # <<>> => Printed(g)
    /\ PostsOnlyWhenConfigured

TodaySendFailed == \E i \in Events("post", "today") : unwrap_panics(log[i].result)

\* C6 (amended): the today message is printed whenever the today group has a
\* match; the upcoming message is printed whenever the upcoming group has a
\* match and the run was not aborted by a failed send of the today message;
\* POSTs happen only for a group that is enabled with both webhook_url and
\* channel_id, and with one of the two missing the line is printed and no POST
\* happens.
C6_Amended ==
    /\ (MatchReturned /\ pc # "today" /\ current_birthdays # <<>>) => Printed("today")
    /\ (Terminated /\ MatchReturned /\ upcoming_birthdays # <<>> /\ ~TodaySendFailed)
          => Printed("upcoming")
    /\ PostsOnlyWhenConfigured

C6_Witness ==
    /\ pc = "done"
    /\ current_birthdays # <<>> /\ upcoming_birthdays # <<>>
    /\ cfg.slack.enabled /\ cfg.slack.webhook_url # {} /\ cfg.slack.channel_id = {}
    /\ cfg.warning.enabled /\ cfg.warning.webhook_url # {} /\ cfg.warning.channel_id # {}
    /\ Printed("today") /\ ~Posted("today")
    /\ Printed("upcoming") /\ Posted("upcoming")

\* C7: a group without a match prints nothing and sends nothing whatever its
\* settings; a run where neither group has a match does not panic after the
\* scan, prints nothing, sends nothing and goes on to the normal exit.
C7_EmptyGroups ==
    MatchReturned =>
        /\ \A g \in Groups : Matches(g) = <<>> => ~Printed(g) /\ ~Posted(g)
        /\ (current_birthdays = <<>> /\ upcoming_birthdays = <<>>) =>
              /\ pc \in {"today", "upcoming", "done"}
              /\ log = <<>>

C7_Witness ==
    /\ pc = "done"
    /\ input # <<>>
    /\ current_birthdays = <<>> /\ upcoming_birthdays = <<>>
    /\ sends(cfg.slack) /\ sends(cfg.warning)
    /\ log = <<>>

PostsPerGroup == \A g \in Groups : Cardinality(Events("post", g)) <= 1

\* C8: every failure of a send, a network error as well as a non-success HTTP
\* response, aborts the run at that send; each send is a single POST.
C8_SendFailureFatal ==
    /\ \A i \in 1..Len(log) :
          (log[i].kind = "post" /\ log[i].result # "Ok(2xx)")
              => pc = "panicked" /\ panic = SendPanic /\ i = Len(log)
    /\ PostsPerGroup

\* C9: a row that fails to deserialize aborts the run inside the scan, wherever
\* the row is: nothing is printed and nothing is sent, also for the rows that
\* matched before it.
C9_BadRowAborts ==
    (\E i \in 1..Len(input) : ~input[i].ok) =>
        /\ pc = "panicked"
        /\ panic = "Deserialized CSV record"
        /\ log = <<>>

C9_Witness ==
    /\ pc = "panicked"
    /\ Len(input) = 3
    /\ input[1].ok /\ input[1].date = current_date
    /\ input[2].ok /\ input[2].date = warning_date /\ warning_date # current_date
    /\ ~input[3].ok
    /\ log = <<>>

\* C10: at most two POSTs, at most one per group; everything of the today group
\* comes before the upcoming line; when both groups have matches and the send
\* of the today message fails, the upcoming message is neither printed nor sent.
C10_TodayFailureStopsRun ==
    /\ Cardinality({i \in 1..Len(log) : log[i].kind = "post"}) <= 2
    /\ PostsPerGroup
    /\ \A i, j \in 1..Len(log) :
          (log[i].group = "upcoming" /\ log[j].group = "today") => j < i
    /\ (/\ current_birthdays # <<>>
        /\ upcoming_birthdays # <<>>
        /\ \E i \in Events("post", "today") : log[i].result # "Ok(2xx)")
          => ~Printed("upcoming") /\ ~Posted("upcoming")

====
